---- MODULE Spec2Model ----
(***************************************************************************)
(* randomandroidphone: the Luhn checksum engine (checksum,                 *)
(* calc_check_digit) and the identity synthesizer RandomPhone              *)
(* (__init__, _get_phone_number, _get_phone_data, get_phone_data).         *)
(*                                                                         *)
(* A Python str is a sequence of one-character strings.  A Python value    *)
(* read from a table cell or a format chunk is a record [ty, n, s]: an    *)
(* int (n), a str (s) or the float NaN of a missing cell.                  *)
(***************************************************************************)
EXTENDS Integers, Sequences, FiniteSets, TLC

VARIABLES
    \* ---- RandomPhone instance attributes
    country,                       \* self.country
    phone_format_without_country,  \* self.phone_format_without_country
    df,                            \* self.df   (device rows)
    df2,                           \* self.df2  (operator rows of the country)
    phone_format_arg,              \* the format argument __init__ was given
    \* ---- one get_phone_data call
    pc,          \* "idle" | "loop" | "returned" | "raised"
    phonenumber, \* the phonenumber argument (None is the empty str)
    qty,         \* the qty argument
    allresults,  \* the list allresults
    result,      \* what the call handed back: [single, rows]
    last,        \* the last loop iteration: [built, phonenumber, exc]
    \* ---- one call of the checksum engine
    lpc,         \* "start" | "checksum" | "calc_check_digit"
    number,      \* the number argument
    alphabet,    \* the alphabet argument
    lresult      \* [exc, n, s]: the exception, or the int / str returned

vars == <<country, phone_format_without_country, df, df2, phone_format_arg, pc, phonenumber, qty,
          allresults, result, last, lpc, number, alphabet, lresult>>

synthVars == <<country, phone_format_without_country, df, df2, phone_format_arg,
               pc, phonenumber,
               qty, allresults, result, last>>

luhnVars == <<lpc, number, alphabet, lresult>>

----------------------------------------------------------------------------
(* Bounds of the model *)

\* largest qty a caller passes
MaxQty == 2

\* longest number handed to the checksum engine, besides the reference ones
MaxLen == 2

----------------------------------------------------------------------------
(* Python built-ins *)

Min(a, b) == IF a < b THEN a ELSE b

Max(a, b) == IF a > b THEN a ELSE b

Range(s) == {s[i] : i \in 1..Len(s)}

Digits == <<"0", "1", "2", "3", "4", "5", "6", "7", "8", "9">>

HexLower == <<"0", "1", "2", "3", "4", "5", "6", "7", "8", "9",
              "a", "b", "c", "d", "e", "f">>

LowerCase == <<"a", "b", "c", "d", "e", "f", "g", "h", "i", "j", "k", "l", "m",
               "n", "o", "p", "q", "r", "s", "t", "u", "v", "w", "x", "y", "z">>

UpperCase == <<"A", "B", "C", "D", "E", "F", "G", "H", "I", "J", "K", "L", "M",
               "N", "O", "P", "Q", "R", "S", "T", "U", "V", "W", "X", "Y", "Z">>

\* the default alphabet of checksum and calc_check_digit
DefaultAlphabet == Digits

\* seq.index(c), zero-based; only used where c occurs in seq
Index(seq, c) == (CHOOSE i \in 1..Len(seq) :
                     seq[i] = c /\ \A j \in 1..(i - 1) : seq[j] # c) - 1

LowerCaseSet == Range(LowerCase)

UpperCaseSet == Range(UpperCase)

DigitSet == Range(Digits)

\* str.upper(), character by character
UpperChar(c) == IF c \in LowerCaseSet THEN UpperCase[Index(LowerCase, c) + 1]
                ELSE c

upper(s) == [i \in 1..Len(s) |-> UpperChar(s[i])]

\* re.I folds case: compare lower-cased
LowerChar(c) == IF c \in UpperCaseSet THEN LowerCase[Index(UpperCase, c) + 1]
                ELSE c

lower(s) == [i \in 1..Len(s) |-> LowerChar(s[i])]

\* s[:k] for k >= 0
SliceTo(s, k) == SubSeq(s, 1, Min(k, Len(s)))

\* s[start:] for any int start (a negative start counts from the end)
SliceFrom(s, start) ==
    LET n    == Len(s)
        from == IF start < 0 THEN Max(n + start, 0) ELSE Min(start, n)
    IN  SubSeq(s, from + 1, n)

Repeat(c, k) == [i \in 1..k |-> c]

\* str(n) of an int
RECURSIVE NatToStr(_)
NatToStr(n) == IF n < 10 THEN <<Digits[n + 1]>>
               ELSE NatToStr(n \div 10) \o <<Digits[(n % 10) + 1]>>

IntToStr(n) == IF n < 0 THEN <<"-">> \o NatToStr(-n) ELSE NatToStr(n)

\* Python values
PyInt(n) == [ty |-> "int", n |-> n, s |-> <<>>]

PyStr(s) == [ty |-> "str", n |-> 0, s |-> s]

NaN == [ty |-> "float", n |-> 0, s |-> <<>>]

\* str(v)
str(v) == CASE v.ty = "int" -> IntToStr(v.n)
            [] v.ty = "str" -> v.s
            [] OTHER        -> <<"n", "a", "n">>

\* len(v) raises TypeError on a float
LenRaises(v) == v.ty # "str"

----------------------------------------------------------------------------
(* Checksum engine *)

\* tuple(alphabet.index(i) for i in reversed(str(number)))
ReversedIndices(num, alpha) ==
    [i \in 1..Len(num) |-> Index(alpha, num[Len(num) + 1 - i])]

\* the same tuple taken in reading order: the reversal left out
ForwardIndices(num, alpha) == [i \in 1..Len(num) |-> Index(alpha, num[i])]

\* what the index at zero-based position pos0 adds to the total:
\* number[::2] adds i, number[1::2] adds sum(divmod(i * 2, n))
LuhnTerm(pos0, i, n) == IF pos0 % 2 = 0 THEN i
                        ELSE ((i * 2) \div n) + ((i * 2) % n)

RECURSIVE LuhnSum(_, _, _)
LuhnSum(idx, k, n) == IF k = 0 THEN 0
                      ELSE LuhnSum(idx, k - 1, n) + LuhnTerm(k - 1, idx[k], n)

\* alphabet.index(i) raises ValueError for a symbol that is not in alphabet
checksum_exc(num, alpha) ==
    LET symbols == Range(alpha)
    IN  IF \E i \in 1..Len(num) : num[i] \notin symbols THEN "ValueError"
        ELSE "none"

checksum_unreversed(num, alpha) ==
    LuhnSum(ForwardIndices(num, alpha), Len(num), Len(alpha)) % Len(alpha)

\* checksum(number, alphabet), where it raises nothing
checksum(num, alpha) ==
    LuhnSum(ReversedIndices(num, alpha), Len(num), Len(alpha)) % Len(alpha)

\* seq[-k] for k >= 0: seq[-0] is seq[0]
NegIndex(seq, k) == IF k = 0 THEN seq[1] ELSE seq[Len(seq) - k + 1]

\* check_digit = checksum(number + alphabet[0]): the alphabet is not handed on,
\* so the checksum is taken under the default alphabet
check_digit_of(num, alpha) == checksum(num \o <<alpha[1]>>, DefaultAlphabet)

Raised(e) == [exc |-> e, s |-> <<>>]

calc_check_digit_positive(num, alpha) ==
    IF checksum_exc(num \o <<alpha[1]>>, DefaultAlphabet) # "none"
    THEN Raised("ValueError")
    ELSE LET check_digit == check_digit_of(num, alpha)
         IN  IF check_digit >= Len(alpha) THEN Raised("IndexError")
             ELSE [exc |-> "none", s |-> <<alpha[check_digit + 1]>>]

\* calc_check_digit(number, alphabet): the str returned, or the exception
\* raised: ValueError from checksum, IndexError from alphabet[-check_digit]
calc_check_digit(num, alpha) ==
    IF checksum_exc(num \o <<alpha[1]>>, DefaultAlphabet) # "none"
    THEN Raised("ValueError")
    ELSE LET check_digit == check_digit_of(num, alpha)
         IN  IF check_digit > Len(alpha) THEN Raised("IndexError")
             ELSE [exc |-> "none", s |-> <<NegIndex(alpha, check_digit)>>]

\* ---- the engine called on its own
Binary == <<"0", "1">>

Letters == <<"a", "b", "c">>

Alphabets == {DefaultAlphabet, Binary, Letters, HexLower}

Symbols == Range(DefaultAlphabet) \cup Range(Letters)

\* the Luhn reference number of the documentation, without and with its check digit
RefNumber == <<"7", "9", "9", "2", "7", "3", "9", "8", "7", "1">>

RefNumberChecked == RefNumber \o <<"3">>

Numbers == UNION {[1..k -> Symbols] : k \in 0..MaxLen}
              \cup {RefNumber, RefNumberChecked}

NoResult == [exc |-> "none", n |-> 0, s |-> <<>>]

CallChecksum ==
    /\ lpc = "start"
    /\ lpc' = "checksum"
    /\ lresult' = IF checksum_exc(number, alphabet) # "none"
                  THEN [exc |-> checksum_exc(number, alphabet), n |-> 0, s |-> <<>>]
                  ELSE [exc |-> "none", n |-> checksum(number, alphabet), s |-> <<>>]
    /\ UNCHANGED <<number, alphabet>>
    /\ UNCHANGED synthVars

CallCalcCheckDigit ==
    /\ lpc = "start"
    /\ lpc' = "calc_check_digit"
    /\ lresult' = [exc |-> calc_check_digit(number, alphabet).exc, n |-> 0,
                   s |-> calc_check_digit(number, alphabet).s]
    /\ UNCHANGED <<number, alphabet>>
    /\ UNCHANGED synthVars

----------------------------------------------------------------------------
(* Reference tables and arguments *)

\* phoneswithtac.pkl: the device rows of the documented example, with their
\* TAC; the vendor prefix is a partial hex-colon string of any length, and a
\* missing cell reads as NaN
PhonesWithTac ==
    { [bb_tac1 |-> PyInt(35440811),
       bb_mac_prefix |-> PyStr(<<"0", "0", ":", "0", "A", ":", "0", "0">>)],
      [bb_tac1 |-> PyInt(35495910),
       bb_mac_prefix |-> PyStr(<<"7", "0", ":", "B", "3", ":", "D", "5", ":", "7">>)],
      [bb_tac1 |-> PyInt(35917109),
       bb_mac_prefix |-> PyStr(<<"0", "0", ":", "0", "A">>)],
      [bb_tac1 |-> PyInt(35263909),
       bb_mac_prefix |-> NaN] }

\* phonecodescountry.pkl: two operator rows of the documented example, and a
\* row whose line prefix is not all digits
PhoneCodesCountry ==
    { [aa_country |-> PyStr(<<"B", "r", "a", "z", "i", "l">>),
       aa_mcc |-> PyInt(724), aa_mnc |-> PyInt(11), aa_line |-> PyStr(<<"5", "5">>)],
      [aa_country |-> PyStr(<<"B", "r", "a", "z", "i", "l">>),
       aa_mcc |-> PyInt(724), aa_mnc |-> PyInt(6), aa_line |-> PyStr(<<"5", "5">>)],
      [aa_country |-> PyStr(<<"S", "a", "m", "o", "a">>),
       aa_mcc |-> PyInt(544), aa_mnc |-> PyInt(11),
       aa_line |-> PyStr(<<"1", "-", "6", "8", "4">>)] }

\* the country argument
Countries == { <<"B", "R", "A">>, <<"s", "a", "m", "o", "a">>,
               <<"A", "t", "l", "a", "n", "t", "i", "s">> }

FormatExample == << <<PyInt(11), PyInt(12)>>, <<PyInt(9)>>,
                    <<PyStr(<<"0", "0", "0", "1">>)>> >>

FormatSigned == << <<PyStr(<<"-", "5">>), PyInt(112)>>, <<PyInt(9)>> >>

\* the phone_format_without_country argument; () is the default
FormatArgs == { <<>>, FormatExample, FormatSigned }

\* None (and the empty str, which is as falsy)
None == <<>>

ExplicitPhone == <<"(", "1", "1", ")", " ", "9", "1", "2", "3", "4", "-",
                   "5", "6", "7", "8">>

PhoneArgs == { None, ExplicitPhone }

\* what one iteration draws from the random source: random.randint(0, 999999)
\* and the three random.randint(0, 255)
RandomDraws == { [randint |-> 877984, octets |-> <<41, 244, 202>>],
                 [randint |-> 7, octets |-> <<0, 255, 10>>] }

----------------------------------------------------------------------------
(* RandomPhone.__init__ *)

zfill_none(s, width) == s

\* str.zfill(width): zeros go after a leading sign
zfill(s, width) ==
    IF Len(s) >= width THEN s
    ELSE IF Len(s) > 0 /\ s[1] \in {"+", "-"}
         THEN <<s[1]>> \o Repeat("0", width - Len(s)) \o SubSeq(s, 2, Len(s))
         ELSE Repeat("0", width - Len(s)) \o s

\* len(sorted(x, key=len)[-1]) of a chunk of strs
LongestLen(x) == CHOOSE m \in {Len(x[j]) : j \in 1..Len(x)} :
                     \A j \in 1..Len(x) : Len(x[j]) <= m

\* lines 55-64: every fragment as a str, zero-filled to its chunk's longest
NormalizeFormat(arg) ==
    LET strs == [i \in 1..Len(arg) |-> [j \in 1..Len(arg[i]) |-> str(arg[i][j])]]
    IN  [i \in 1..Len(strs) |->
            [j \in 1..Len(strs[i]) |-> zfill(strs[i][j], LongestLen(strs[i]))]]

\* Series.str.contains(pat, regex=True, na=False, flags=re.I), pat a literal
contains(cell, pat) ==
    /\ cell.ty = "str"
    /\ \E i \in 0..(Len(cell.s) - Len(pat)) :
           SubSeq(lower(cell.s), i + 1, i + Len(pat)) = lower(pat)

NoAttempt == [built |-> FALSE, phonenumber |-> <<>>, exc |-> "none"]

NoReturn == [kind |-> "none", value |-> <<>>]

Init ==
    /\ \E c \in Countries, f \in FormatArgs :
          /\ country = c
          /\ phone_format_arg = f
          /\ phone_format_without_country = NormalizeFormat(f)
          /\ df = PhonesWithTac
          /\ df2 = {r \in PhoneCodesCountry : contains(r.aa_country, c)}
    /\ pc = "idle"
    /\ phonenumber = None
    /\ qty = 0
    /\ allresults = <<>>
    /\ result = NoReturn
    /\ last = NoAttempt
    /\ lpc = "off"
    /\ number = <<>>
    /\ alphabet = DefaultAlphabet
    /\ lresult = NoResult

----------------------------------------------------------------------------
(* RandomPhone._get_phone_number *)

IsDigit(c) == c \in DigitSet

\* re.sub(r"\D+", "", s)
StripNonDigits(s) == SelectSeq(s, IsDigit)

RECURSIVE Join(_)
Join(parts) == IF parts = <<>> THEN <<>> ELSE Head(parts) \o Join(Tail(parts))

\* the outcomes of random.choice(chunks) for every chunk
Choices(fmt) == {c \in [1..Len(fmt) -> UNION {Range(fmt[i]) : i \in 1..Len(fmt)}] :
                    \A i \in 1..Len(fmt) : c[i] \in Range(fmt[i])}

\* every outcome of _get_phone_number: the number, or the ValueError
get_phone_number(fmt, pn) ==
    IF pn # <<>>
    THEN {[built |-> TRUE, phonenumber |-> StripNonDigits(pn), exc |-> "none"]}
    ELSE IF fmt # <<>>
    THEN {[built |-> TRUE, phonenumber |-> StripNonDigits(Join(c)), exc |-> "none"] :
             c \in Choices(fmt)}
    ELSE {[built |-> FALSE, phonenumber |-> <<>>,
           exc |-> "ValueError: Need a phone number"]}

----------------------------------------------------------------------------
(* RandomPhone._get_phone_data *)

totallen == 17

\* "%02x" % v
Hex02(v) == <<HexLower[(v \div 16) + 1], HexLower[(v % 16) + 1]>>

\* ":%02x:%02x:%02x" % tuple(random.randint(0, 255) for v in range(3))
OctetSuffix(octets) ==
    <<":">> \o Hex02(octets[1]) \o <<":">> \o Hex02(octets[2])
            \o <<":">> \o Hex02(octets[3])

\* line 99
imsi_of(sa, pn) == SliceTo(str(sa.aa_mcc) \o str(sa.aa_mnc) \o pn, 15)

imei_body_unfilled(tac, randint) == SliceTo(tac \o IntToStr(randint), 14)

\* line 101
imei_body(tac, randint) == SliceTo(tac \o zfill(IntToStr(randint), 6), 14)

\* lines 106-111
iccid_body(sa, pn) ==
    SliceTo(<<"8", "9">>
            \o SliceTo(str(sa.aa_line) \o Repeat("0", 6), 6)
            \o str(sa.aa_mnc)
            \o SliceTo(pn \o Repeat("0", 12), 10), 19)

\* lines 114-122, for a prefix that has a len()
macaddress_of(prefix, octets) ==
    LET macaddressprefixlen == totallen - Len(prefix.s)
    IN  upper(str(prefix) \o SliceFrom(OctetSuffix(octets), -macaddressprefixlen))

NoRow == <<>>

\* what lines 95 and 98 sample and lines 101 and 119 draw; DataFrame.sample()
\* of an empty table raises ValueError
NoSample == [ok |-> FALSE, sa2 |-> NoRow, sa |-> NoRow, draw |-> NoRow]

Samples(dfv, df2v) ==
    IF dfv = {} \/ df2v = {} THEN {NoSample}
    ELSE {[ok |-> TRUE, sa2 |-> sa2, sa |-> sa, draw |-> draw] :
             sa2 \in dfv, sa \in df2v, draw \in RandomDraws}

\* the locals after lines 94-101 and 106-111, for the phone number built p
\* and the sample s: imei and iccid still lack their check digit
Locals(p, s) ==
    [att   |-> p,
     sa2   |-> s.sa2,
     sa    |-> s.sa,
     draw  |-> s.draw,
     imsi  |-> imsi_of(s.sa, p.phonenumber),
     imei  |-> imei_body(str(s.sa2.bb_tac1), s.draw.randint),
     iccid |-> iccid_body(s.sa, p.phonenumber)]

\* lines 103 and 112: the two calls of calc_check_digit
CheckDigits(l) ==
    [l |-> l,
     checknumberimei  |-> calc_check_digit(l.imei, Digits),
     checknumbericcid |-> calc_check_digit(l.iccid, DefaultAlphabet)]

\* what the call ends with: the first exception raised (calc_check_digit for
\* imei, then for iccid, then len() of the prefix), or the row of lines
\* 123-130.  [att, row]: att.exc is "none" when row is returned
Finish(c) ==
    IF c.checknumberimei.exc # "none"
    THEN [att |-> [c.l.att EXCEPT !.exc = "ValueError: substring not found"],
          row |-> NoRow]
    ELSE IF c.checknumbericcid.exc # "none"
    THEN [att |-> [c.l.att EXCEPT !.exc = "ValueError: substring not found"],
          row |-> NoRow]
    ELSE IF LenRaises(c.l.sa2.bb_mac_prefix)
    THEN [att |-> [c.l.att EXCEPT !.exc = "TypeError: float has no len()"],
          row |-> NoRow]
    ELSE [att |-> c.l.att,
          row |-> [bb_tac1         |-> c.l.sa2.bb_tac1,
                   bb_mac_prefix   |-> c.l.sa2.bb_mac_prefix,
                   cc_imsi         |-> c.l.imsi,
                   cc_imei         |-> c.l.imei \o c.checknumberimei.s,
                   cc_iccid        |-> c.l.iccid \o c.checknumbericcid.s,
                   cc_macaddress   |-> macaddress_of(c.l.sa2.bb_mac_prefix,
                                                     c.l.draw.octets),
                   cc_phone_number |-> str(c.l.sa.aa_line) \o c.l.att.phonenumber,
                   aa_country      |-> c.l.sa.aa_country,
                   aa_mcc          |-> c.l.sa.aa_mcc,
                   aa_mnc          |-> c.l.sa.aa_mnc,
                   aa_line         |-> c.l.sa.aa_line]]

\* every outcome of self._get_phone_data(phonenumber): line 94 raises when no
\* number can be built, lines 95 and 98 when a table is empty
get_phone_data_one(fmt, dfv, df2v, pn) ==
    LET numbers == get_phone_number(fmt, pn)
        built   == {p \in numbers : p.built}
    IN  {[att |-> p, row |-> NoRow] : p \in numbers \ built}
        \cup
        {[att |-> [p EXCEPT !.exc = "ValueError: a must be greater than 0"],
          row |-> NoRow] : p \in {q \in built : dfv = {} \/ df2v = {}}}
        \cup
        {Finish(c) : c \in {CheckDigits(l) : l \in
            {Locals(p, s) : p \in built, s \in {x \in Samples(dfv, df2v) : x.ok}}}}

----------------------------------------------------------------------------
(* RandomPhone.get_phone_data *)

LoopCond_le(n, q) == n <= q

\* line 244: while len(allresults) < qty
LoopCond(n, q) == n < q

\* lines 243-244: a call begins
Call ==
    /\ pc = "idle"
    /\ \E p \in PhoneArgs, q \in 0..MaxQty :
          /\ phonenumber' = p
          /\ qty' = q
    /\ pc' = "loop"
    /\ allresults' = <<>>
    /\ result' = NoReturn
    /\ last' = NoAttempt
    /\ UNCHANGED <<country, phone_format_without_country, df, df2, phone_format_arg>>
    /\ UNCHANGED luhnVars

\* line 246: _get_phone_data returned o.row
TryAppend(o) ==
    /\ allresults' = Append(allresults, o.row)
    /\ last' = o.att
    /\ pc' = pc

ExceptRaise(o) ==
    /\ allresults' = allresults
    /\ last' = o.att
    /\ pc' = "raised"

\* lines 247-248: _get_phone_data raised o.att.exc: except Exception, continue
ExceptContinue(o) ==
    /\ allresults' = allresults
    /\ last' = o.att
    /\ pc' = pc

\* lines 244-248: one iteration of the loop
Iterate ==
    /\ pc = "loop"
    /\ LoopCond(Len(allresults), qty)
    /\ \E o \in get_phone_data_one(phone_format_without_country, df, df2, phonenumber) :
          IF o.att.exc = "none" THEN TryAppend(o) ELSE ExceptContinue(o)
    /\ UNCHANGED <<country, phone_format_without_country, df, df2, phone_format_arg,
                   phonenumber, qty, result>>
    /\ UNCHANGED luhnVars

\* lines 249-251: the loop is over; pd.concat([]) raises ValueError
Return ==
    /\ pc = "loop"
    /\ ~LoopCond(Len(allresults), qty)
    /\ IF Len(allresults) = 1
       THEN /\ result' = [kind |-> "record", value |-> allresults[1]]
            /\ pc' = "returned"
       ELSE IF Len(allresults) = 0
       THEN /\ result' = NoReturn
            /\ pc' = "raised"
       ELSE /\ result' = [kind |-> "frame", value |-> allresults]
            /\ pc' = "returned"
    /\ UNCHANGED <<country, phone_format_without_country, df, df2, phone_format_arg,
                   phonenumber, qty, allresults, last>>
    /\ UNCHANGED luhnVars

Next == Call \/ Iterate \/ Return

Spec == Init /\ [][Next]_vars

----------------------------------------------------------------------------
(* The checksum engine called on its own *)

InitLuhn ==
    /\ country = <<>>
    /\ phone_format_arg = <<>>
    /\ phone_format_without_country = <<>>
    /\ df = {}
    /\ df2 = {}
    /\ pc = "off"
    /\ phonenumber = None
    /\ qty = 0
    /\ allresults = <<>>
    /\ result = NoReturn
    /\ last = NoAttempt
    /\ lpc = "start"
    /\ number \in Numbers
    /\ alphabet \in Alphabets
    /\ lresult = NoResult

NextLuhn == CallChecksum \/ CallCalcCheckDigit

SpecLuhn == InitLuhn /\ [][NextLuhn]_vars

----------------------------------------------------------------------------
(* Properties *)

\* the rows a finished call handed back, as a list
ReturnedRows == IF result.kind = "record" THEN <<result.value>>
                ELSE IF result.kind = "frame" THEN result.value
                ELSE <<>>

\* every row produced so far: collected in allresults, or handed back
ProducedRows == Range(allresults) \cup Range(ReturnedRows)

PassesLuhn(s) == checksum_exc(s, Digits) = "none" /\ checksum(s, Digits) = 0

\* C1: for every alphabet A and every number s over A, calc_check_digit(s, A)
\* returns a symbol d with checksum(s + d, A) = 0
C1_CheckDigitZeroesChecksum ==
    (lpc = "calc_check_digit" /\ checksum_exc(number, alphabet) = "none")
        => /\ lresult.exc = "none"
           /\ checksum_exc(number \o lresult.s, alphabet) = "none"
           /\ checksum(number \o lresult.s, alphabet) = 0

\* C2: in every row produced, imei and iccid pass Luhn validation under the
\* decimal alphabet
C2_ImeiIccidPassLuhn ==
    \A r \in ProducedRows : PassesLuhn(r.cc_imei) /\ PassesLuhn(r.cc_iccid)

\* a call returned the first row of the documented example: TAC 35440811,
\* random part 877984, imei 354408118779849
C2_DocumentedImeiReturned ==
    /\ pc = "returned"
    /\ \E r \in ProducedRows :
          /\ r.cc_imei = <<"3", "5", "4", "4", "0", "8", "1", "1",
                           "8", "7", "7", "9", "8", "4", "9">>
          /\ SubSeq(r.cc_iccid, 1, 10) = <<"8", "9", "5", "5", "0", "0", "0", "0",
                                          "1", "1">>

\* C3: for qty >= 1 a call that returns hands back exactly qty rows, in the
\* order the iterations appended them (the list only ever grows at its end, by
\* the row of an iteration that raised nothing); for qty = 1 it hands back the
\* row itself, not a frame of one row
C3_ReturnsExactlyQty ==
    /\ []((pc = "returned" /\ qty >= 1)
            => /\ Len(allresults) = qty
               /\ Len(ReturnedRows) = qty
               /\ ReturnedRows = allresults
               /\ (result.kind = "record") <=> (qty = 1))
    /\ [][allresults' # allresults
            => /\ Len(allresults') = Len(allresults) + 1
               /\ SubSeq(allresults', 1, Len(allresults)) = allresults
               /\ last'.exc = "none"]_vars

\* a call for two rows returned two different rows
C3_TwoRowsReturned ==
    /\ pc = "returned"
    /\ qty = 2
    /\ result.kind = "frame"
    /\ result.value[1] # result.value[2]

\* C4: the ValueError of _get_phone_number (no phone number, no format) is
\* propagated to the caller of get_phone_data at once, never retried
C4_NoPhoneErrorPropagates ==
    (last.exc = "ValueError: Need a phone number") => pc = "raised"

\* C5: with a country that matches no operator row, generating a row surfaces
\* a failure to the caller
C5_NoOperatorRowsSurfaces ==
    (df2 = {} /\ qty >= 1 /\ last # NoAttempt) => pc = "raised"

UpperHexSet == Range(Digits) \cup {"A", "B", "C", "D", "E", "F"}

\* zero-based positions of the colons of a MAC address
ColonPositions == {2, 5, 8, 11, 14}

\* C7: in every row produced, mac_address has exactly 17 characters, begins
\* with the upper-cased vendor prefix, and has colons at positions 2, 5, 8, 11
\* and 14 and upper-case hex digits elsewhere
C7_MacAddressShape ==
    \A r \in ProducedRows :
        /\ Len(r.cc_macaddress) = totallen
        /\ SubSeq(r.cc_macaddress, 1, Len(r.bb_mac_prefix.s)) = upper(r.bb_mac_prefix.s)
        /\ \A k \in 1..totallen :
              IF (k - 1) \in ColonPositions THEN r.cc_macaddress[k] = ":"
              ELSE r.cc_macaddress[k] \in UpperHexSet

\* zeros put in front of s up to width w
PadLeft(s, w) == IF Len(s) >= w THEN s ELSE Repeat("0", w - Len(s)) \o s

\* the phone numbers a format stands for: one fragment of each chunk, padded
\* to the longest fragment of its chunk and rid of its non-digits, in order
FormatPhones(arg) ==
    LET frag(i, j) == StripNonDigits(PadLeft(str(arg[i][j]),
                          LongestLen([k \in 1..Len(arg[i]) |-> str(arg[i][k])])))
        picks == {c \in [1..Len(arg) -> UNION {1..Len(arg[i]) : i \in 1..Len(arg)}] :
                     \A i \in 1..Len(arg) : c[i] <= Len(arg[i])}
    IN  {Join([i \in 1..Len(arg) |-> frag(i, c[i])]) : c \in picks}

\* C8: with a format and no explicit phone number, the number an iteration
\* builds is one of the numbers the format stands for; for the chunks
\* [[11, 12], [9], ["0001"]] it is 1190001 or 1290001
C8_PhoneFromFormat ==
    (phonenumber = None /\ phone_format_arg # <<>> /\ last.built)
        => /\ last.phonenumber \in FormatPhones(phone_format_arg)
           /\ phone_format_arg = FormatExample
                => last.phonenumber \in
                      { <<"1", "1", "9", "0", "0", "0", "1">>,
                        <<"1", "2", "9", "0", "0", "0", "1">> }

\* the fragment "-5" of a chunk whose longest fragment has three characters
\* came out as 05
C8_PaddedSignedFragment ==
    /\ phonenumber = None
    /\ phone_format_arg = FormatSigned
    /\ last.built
    /\ last.phonenumber = <<"0", "5", "9">>

\* C9 as stated: checksum("7992739871") is 3 under the decimal alphabet
C9_ReferenceChecksumIsThree ==
    (lpc = "checksum" /\ number = RefNumber /\ alphabet = DefaultAlphabet)
        => (lresult.exc = "none" /\ lresult.n = 3)

\* C9, amended: checksum("7992739871") is 6 under the decimal alphabet
C9_ReferenceChecksumIsSix ==
    (lpc = "checksum" /\ number = RefNumber /\ alphabet = DefaultAlphabet)
        => (lresult.exc = "none" /\ lresult.n = 6)

\* checksum was called on the reference number under the decimal alphabet
C9_ReferenceChecksummed ==
    lpc = "checksum" /\ number = RefNumber /\ alphabet = DefaultAlphabet

\* C10: an iteration whose _get_phone_data raises leaves allresults as it was
\* and the call in its loop; while fewer than qty rows are collected the call
\* stays in its loop, whatever was raised; the call returns only with qty
\* rows collected, and raises nothing once an iteration was made
C10_FailuresRetriedSilently ==
    /\ [][(last' # last /\ last'.exc # "none")
            => (allresults' = allresults /\ pc = "loop" /\ pc' = "loop")]_vars
    /\ []((last.exc # "none" /\ Len(allresults) < qty) => pc = "loop")
    /\ [](pc = "returned" => Len(allresults) = qty)
    /\ [](pc = "raised" => last = NoAttempt)

\* after one row was collected an iteration raised, and the call is still in
\* its loop with that row
C10_FailureAfterSuccess ==
    /\ pc = "loop"
    /\ qty = 2
    /\ Len(allresults) = 1
    /\ last.exc = "TypeError: float has no len()"

====
